---- MODULE Spec2Model ----
(***************************************************************************)
(* A model of the user service: router -> service -> mapper -> repository  *)
(* -> SQLite.  The state is the two class-level engine attributes          *)
(* (BaseRepository._engine, UserRepository._engine), the user table, the   *)
(* requests in flight in the worker threads and the outcome of the last    *)
(* direct repository call.                                                 *)
(*                                                                         *)
(* Python's None is modelled per type: NoEngine for an engine attribute,   *)
(* NoId (0, never a rowid SQLite hands out) for DbUser.id, Missing for an  *)
(* absent text field, NullUser for "no user object".                       *)
(***************************************************************************)
EXTENDS Integers, Sequences, FiniteSets

\* ------------------------------------------------------------------ bounds
MaxRequests == 3      \* calls (HTTP requests and direct calls) per run
NumWorkers == 2       \* request handlers that may run at the same time
MaxMapperId == 5      \* identifiers tried in the mapper specification

\* ------------------------------------------------------------------ values
NoEngine == "None"
NoId == 0
Missing == "<missing>"
NullUser == [id |-> NoId, name |-> Missing, email |-> Missing]

\* main.py:9-10, the one engine the process creates
Engine == "sqlite:///./app.db"

RawEmails == {"ada@example.com", "Bob@EXAMPLE.ORG", "not-an-email"}
\* JSON bodies a client may post: two valid ones (one with an upper-case
\* domain), one with a malformed email, one without a name, one without an
\* email
Bodies ==
    { [name |-> "Ada", email |-> "ada@example.com"],
      [name |-> "Bob", email |-> "Bob@EXAMPLE.ORG"],
      [name |-> "Bob", email |-> "not-an-email"],
      [name |-> Missing, email |-> "ada@example.com"],
      [name |-> "Ada", email |-> Missing] }

\* a larger alphabet for the mapper specification
MapperNames == {"Ada", "Bob", "Cy"}
MapperRawEmails == RawEmails \cup {"cy@example.net", "@"}
MapperBodies == [name : MapperNames \cup {Missing},
                 email : MapperRawEmails \cup {Missing}]

\* ------------------------------------------------------- pydantic EmailStr
\* EmailStr accepts local@domain and returns it with the domain lower-cased.
IsEmail(e) ==
    e \in {"ada@example.com", "Bob@EXAMPLE.ORG", "Bob@example.org", "cy@example.net"}

NormalizeEmail(e) ==
    IF e = "Bob@EXAMPLE.ORG" THEN "Bob@example.org" ELSE e

\* APIUser(name: str, email: EmailStr): the validated wire-inbound user, or
\* a validation error
APIUser(body) ==
    IF body.name = Missing \/ body.email = Missing \/ ~IsEmail(body.email)
    THEN [ok |-> FALSE, user |-> NullUser]
    ELSE [ok |-> TRUE,
          user |-> [name |-> body.name, email |-> NormalizeEmail(body.email)]]

\* APIUserResponse(id: int, name: str, email: EmailStr)
APIUserResponse(id, name, email) ==
    IF id = NoId \/ name = Missing \/ ~IsEmail(email)
    THEN [ok |-> FALSE, user |-> NullUser]
    ELSE [ok |-> TRUE,
          user |-> [id |-> id, name |-> name, email |-> NormalizeEmail(email)]]

\* DbUser(id: int | None = None, name, email); a table model is not validated
DbUser(name, email) == [id |-> NoId, name |-> name, email |-> email]

\* ------------------------------------------------------------------ mapper
api_user_to_user_swapped(api_user) == DbUser(api_user.email, api_user.name)

api_user_to_user(api_user) == DbUser(api_user.name, api_user.email)

user_to_api_user_response(user) == APIUserResponse(user.id, user.name, user.email)

\* ------------------------------------------------------------------- state
VARIABLES
    phase,            \* "init": modules loaded; "bound": main.py has run;
                      \* "serving": lifespan startup done, requests accepted
    baseEngine,       \* BaseRepository._engine
    userRepoEngine,   \* UserRepository._engine
    tableCreated,     \* SQLModel.metadata.create_all has run
    storage,          \* the rows of the user table, in rowid order
    req,              \* per worker: the request it is handling
    sessionsOpened,   \* Session objects constructed so far
    requestsStarted,  \* calls made so far (bounded by MaxRequests)
    lastCall,         \* outcome of the last direct repository call
    mapStage, mapIn, mapDb, mapOut   \* the mapper specification's state

vars == <<phase, baseEngine, userRepoEngine, tableCreated, storage, req,
          sessionsOpened, requestsStarted, lastCall,
          mapStage, mapIn, mapDb, mapOut>>

appVars == <<phase, baseEngine, userRepoEngine, tableCreated, storage, req,
             sessionsOpened, requestsStarted, lastCall>>

mapVars == <<mapStage, mapIn, mapDb, mapOut>>

Workers == 1..NumWorkers

NullIn == [name |-> Missing, email |-> Missing]

NoBody == [tag |-> "none"]

Idle == [pc |-> "idle", kind |-> "none", raw |-> NullIn, api_user |-> NullIn,
         db_user |-> NullUser, session |-> 0, status |-> 0, err |-> "none",
         ret |-> NullUser, body |-> NoBody]

NoCall == [op |-> "none", err |-> "none", user |-> NullUser]

\* -------------------------------------------------------------- repository
\* the attributes class UserRepository defines
UserRepositoryMethods == {"set_engine", "_get_session", "create"}

\* _get_session: RuntimeError when the class's engine is None, otherwise a
\* new Session on it
get_session(engine) ==
    IF engine = NoEngine
    THEN [ok |-> FALSE, engine |-> NoEngine]
    ELSE [ok |-> TRUE, engine |-> engine]

RowIds(rows) == {rows[i].id : i \in DOMAIN rows}

MaxRowId(rows) ==
    IF rows = <<>> THEN 0
    ELSE CHOOSE m \in RowIds(rows) : \A k \in RowIds(rows) : k <= m

\* INTEGER PRIMARY KEY: the new rowid is one more than the largest in use
NextIdStale(rows) == IF rows = <<>> THEN 1 ELSE MaxRowId(rows)

NextId(rows) == MaxRowId(rows) + 1

\* session.add + session.commit: INSERT one row with a storage-assigned id
InsertRowMerge(rows, user) ==
    IF rows = <<>>
    THEN <<[user EXCEPT !.id = 1]>>
    ELSE [rows EXCEPT ![Len(rows)] = [user EXCEPT !.id = rows[Len(rows)].id]]

InsertRow(rows, user) == Append(rows, [user EXCEPT !.id = NextId(rows)])

\* session.refresh(user): reload the object from its row
RefreshRow(rows, id) ==
    IF id \in RowIds(rows)
    THEN rows[CHOOSE i \in DOMAIN rows : rows[i].id = id]
    ELSE NullUser

\* UserRepository.create as one call: <<error, rows after, returned user>>
create(engine, hasTable, rows, user) ==
    IF ~get_session(engine).ok
    THEN [err |-> "RuntimeError", rows |-> rows, user |-> NullUser]
    ELSE IF ~hasTable
    THEN [err |-> "OperationalError", rows |-> rows, user |-> NullUser]
    ELSE LET after == InsertRow(rows, user)
             id == after[Len(after)].id
         IN [err |-> "none", rows |-> after, user |-> RefreshRow(after, id)]

\* ---------------------------------------------------------------- startup
Init ==
    /\ phase = "init"
    /\ baseEngine = NoEngine
    /\ userRepoEngine = NoEngine
    /\ tableCreated = FALSE
    /\ storage = <<>>
    /\ req = [w \in Workers |-> Idle]
    /\ sessionsOpened = 0
    /\ requestsStarted = 0
    /\ lastCall = NoCall
    /\ mapStage = "off"
    /\ mapIn = NullIn
    /\ mapDb = NullUser
    /\ mapOut = NullUser

\* main.py module level: engine = create_engine(...);
\* BaseRepository.set_engine(engine)
MainModule ==
    /\ phase = "init"
    /\ phase' = "bound"
    /\ baseEngine' = Engine
    /\ UNCHANGED <<userRepoEngine, tableCreated, storage, req, sessionsOpened,
                   requestsStarted, lastCall, mapVars>>

\* main.py lifespan: SQLModel.metadata.create_all(engine), then serve
Lifespan ==
    /\ phase = "bound"
    /\ phase' = "serving"
    /\ tableCreated' = TRUE
    /\ UNCHANGED <<baseEngine, userRepoEngine, storage, req, sessionsOpened,
                   requestsStarted, lastCall, mapVars>>

\* UserRepository.set_engine(engine): nothing in the program calls it; a
\* caller that holds the engine may
UserRepositorySetEngine ==
    /\ phase /= "init"
    /\ userRepoEngine' = Engine
    /\ UNCHANGED <<phase, baseEngine, tableCreated, storage, req,
                   sessionsOpened, requestsStarted, lastCall, mapVars>>

\* ---------------------------------------------------- direct repository calls
ValidAPIUsers == {APIUser(b).user : b \in {x \in Bodies : APIUser(x).ok}}

\* UserRepository.create(user), called outside a request
RepositoryCreate(user) ==
    /\ requestsStarted < MaxRequests
    /\ requestsStarted' = requestsStarted + 1
    /\ LET r == create(userRepoEngine, tableCreated, storage, user)
       IN /\ storage' = r.rows
          /\ lastCall' = [op |-> "create", err |-> r.err, user |-> r.user]
          /\ sessionsOpened' =
                 IF r.err = "RuntimeError" THEN sessionsOpened
                 ELSE sessionsOpened + 1
    /\ UNCHANGED <<phase, baseEngine, userRepoEngine, tableCreated, req, mapVars>>

\* UserRepository.get_all_users(): the class defines no such attribute
RepositoryGetAllUsers ==
    /\ requestsStarted < MaxRequests
    /\ requestsStarted' = requestsStarted + 1
    /\ lastCall' = [op |-> "get_all_users",
                    err |-> IF "get_all_users" \in UserRepositoryMethods
                            THEN "none" ELSE "AttributeError",
                    user |-> NullUser]
    /\ UNCHANGED <<phase, baseEngine, userRepoEngine, tableCreated, storage,
                   req, sessionsOpened, mapVars>>

\* BaseRepository._get_session(), called outside a request
BaseRepositoryGetSession ==
    /\ requestsStarted < MaxRequests
    /\ requestsStarted' = requestsStarted + 1
    /\ LET s == get_session(baseEngine)
       IN /\ lastCall' = [op |-> "base_get_session",
                          err |-> IF s.ok THEN "none" ELSE "RuntimeError",
                          user |-> NullUser]
          /\ sessionsOpened' = IF s.ok THEN sessionsOpened + 1 ELSE sessionsOpened
    /\ UNCHANGED <<phase, baseEngine, userRepoEngine, tableCreated, storage,
                   req, mapVars>>

\* ------------------------------------------------------------ HTTP handlers
\* an exception that leaves the handler: 500 Internal Server Error
Failed(r, error) ==
    [r EXCEPT !.pc = "done", !.status = 500, !.err = error,
              !.body = [tag |-> "detail"]]

\* FastAPI binds the request body to the handler's parameter
\* (api_user: APIUser) before it calls the handler
ParseBodyUnvalidated(body) ==
    [ok |-> TRUE, user |-> [name |-> body.name, email |-> body.email]]

ParseBody(body) == APIUser(body)

\* GET /hi
GetHi(w) ==
    /\ phase = "serving"
    /\ req[w].pc = "idle"
    /\ requestsStarted < MaxRequests
    /\ requestsStarted' = requestsStarted + 1
    /\ req' = [req EXCEPT ![w] =
                 [Idle EXCEPT !.pc = "done", !.kind = "hi", !.status = 200,
                              !.body = [tag |-> "message",
                                        message |-> "Hello World"]]]
    /\ UNCHANGED <<phase, baseEngine, userRepoEngine, tableCreated, storage,
                   sessionsOpened, lastCall, mapVars>>

\* POST /create-user, up to session.add: body validation, then
\* UserService.create_user -> api_user_to_user -> UserRepository.create ->
\* _get_session, session.add(user)
PostCreateUser(w, body) ==
    /\ phase = "serving"
    /\ req[w].pc = "idle"
    /\ requestsStarted < MaxRequests
    /\ requestsStarted' = requestsStarted + 1
    /\ LET parsed == ParseBody(body)
           start == [Idle EXCEPT !.kind = "create", !.raw = body]
       IN IF ~parsed.ok
          THEN /\ req' = [req EXCEPT ![w] =
                            [start EXCEPT !.pc = "done", !.status = 422,
                                          !.err = "RequestValidationError",
                                          !.body = [tag |-> "detail"]]]
               /\ UNCHANGED sessionsOpened
          ELSE LET called == [start EXCEPT !.api_user = parsed.user,
                                 !.db_user = api_user_to_user(parsed.user)]
               IN IF ~get_session(userRepoEngine).ok
                  THEN /\ req' = [req EXCEPT ![w] = Failed(called, "RuntimeError")]
                       /\ UNCHANGED sessionsOpened
                  ELSE /\ sessionsOpened' = sessionsOpened + 1
                       /\ req' = [req EXCEPT ![w] =
                                    [called EXCEPT !.pc = "added",
                                                   !.session = sessionsOpened + 1]]
    /\ UNCHANGED <<phase, baseEngine, userRepoEngine, tableCreated, storage,
                   lastCall, mapVars>>

\* session.commit(): the INSERT; the object gets the id of its row
Commit(w) ==
    /\ req[w].pc = "added"
    /\ IF ~tableCreated
       THEN /\ req' = [req EXCEPT ![w] = Failed(req[w], "OperationalError")]
            /\ UNCHANGED storage
       ELSE LET after == InsertRow(storage, req[w].db_user)
            IN /\ storage' = after
               /\ req' = [req EXCEPT ![w].pc = "committed",
                                     ![w].db_user = after[Len(after)]]
    /\ UNCHANGED <<phase, baseEngine, userRepoEngine, tableCreated,
                   sessionsOpened, requestsStarted, lastCall, mapVars>>

\* session.refresh(user); return user; the service maps it with
\* user_to_api_user_response; the route function returns nothing, so the
\* response is 200 with body null
Return(w) ==
    /\ req[w].pc = "committed"
    /\ LET saved_user == RefreshRow(storage, req[w].db_user.id)
           out == user_to_api_user_response(saved_user)
       IN req' = [req EXCEPT ![w] =
                    IF ~out.ok
                    THEN Failed([req[w] EXCEPT !.db_user = saved_user],
                                "ValidationError")
                    ELSE [req[w] EXCEPT !.pc = "done", !.db_user = saved_user,
                                        !.ret = out.user, !.status = 200,
                                        !.body = [tag |-> "null"]]]
    /\ UNCHANGED <<phase, baseEngine, userRepoEngine, tableCreated, storage,
                   sessionsOpened, requestsStarted, lastCall, mapVars>>

\* [UserMapper.user_to_api_user_response(user) for user in users]
MapAll(users) ==
    [i \in DOMAIN users |-> user_to_api_user_response(users[i]).user]

\* GET /users: UserService.get_all_users calls UserRepository.get_all_users,
\* which raises AttributeError before any row is read
GetUsers(w) ==
    /\ phase = "serving"
    /\ req[w].pc = "idle"
    /\ requestsStarted < MaxRequests
    /\ requestsStarted' = requestsStarted + 1
    /\ req' = [req EXCEPT ![w] =
                 IF "get_all_users" \in UserRepositoryMethods
                 THEN [Idle EXCEPT !.pc = "done", !.kind = "list", !.status = 200,
                                   !.body = [tag |-> "list",
                                             users |-> MapAll(storage)]]
                 ELSE Failed([Idle EXCEPT !.kind = "list"], "AttributeError")]
    /\ UNCHANGED <<phase, baseEngine, userRepoEngine, tableCreated, storage,
                   sessionsOpened, lastCall, mapVars>>

\* the response is sent; the worker takes the next request
Respond(w) ==
    /\ req[w].pc = "done"
    /\ req' = [req EXCEPT ![w] = Idle]
    /\ UNCHANGED <<phase, baseEngine, userRepoEngine, tableCreated, storage,
                   sessionsOpened, requestsStarted, lastCall, mapVars>>

Next ==
    \/ MainModule
    \/ Lifespan
    \/ UserRepositorySetEngine
    \/ \E u \in ValidAPIUsers : RepositoryCreate(api_user_to_user(u))
    \/ RepositoryGetAllUsers
    \/ BaseRepositoryGetSession
    \/ \E w \in Workers : GetHi(w)
    \/ \E w \in Workers, b \in Bodies : PostCreateUser(w, b)
    \/ \E w \in Workers : Commit(w)
    \/ \E w \in Workers : Return(w)
    \/ \E w \in Workers : GetUsers(w)
    \/ \E w \in Workers : Respond(w)

Spec == Init /\ [][Next]_vars

\* ------------------------------------------------- the mapper on its own
\* The wire-inbound users the mapper can be handed: validated APIUser objects.
MapperAPIUsers == {APIUser(b).user : b \in {x \in MapperBodies : APIUser(x).ok}}

MapperInit ==
    /\ phase = "init"
    /\ baseEngine = NoEngine
    /\ userRepoEngine = NoEngine
    /\ tableCreated = FALSE
    /\ storage = <<>>
    /\ req = [w \in Workers |-> Idle]
    /\ sessionsOpened = 0
    /\ requestsStarted = 0
    /\ lastCall = NoCall
    /\ mapStage = "in"
    /\ mapIn \in MapperAPIUsers
    /\ mapDb = NullUser
    /\ mapOut = NullUser

\* UserMapper.api_user_to_user(api_user)
MapToStored ==
    /\ mapStage = "in"
    /\ mapStage' = "stored"
    /\ mapDb' = api_user_to_user(mapIn)
    /\ UNCHANGED <<mapIn, mapOut, appVars>>

\* storage assigns the identifier (commit + refresh)
MapperAssignId(i) ==
    /\ mapStage = "stored"
    /\ mapStage' = "saved"
    /\ mapDb' = [mapDb EXCEPT !.id = i]
    /\ UNCHANGED <<mapIn, mapOut, appVars>>

\* UserMapper.user_to_api_user_response(user), applied to the stored user
\* as it is: with or without an identifier
MapToOutbound ==
    /\ mapStage \in {"stored", "saved"}
    /\ LET out == user_to_api_user_response(mapDb)
       IN /\ mapStage' = IF out.ok THEN "out" ELSE "ValidationError"
          /\ mapOut' = out.user
    /\ UNCHANGED <<mapIn, mapDb, appVars>>

MapperNext ==
    \/ MapToStored
    \/ \E i \in 1..MaxMapperId : MapperAssignId(i)
    \/ MapToOutbound

MapperSpec == MapperInit /\ [][MapperNext]_vars

\* ================================================================= claims
IsPrefix(a, b) == Len(a) <= Len(b) /\ SubSeq(b, 1, Len(a)) = a

\* worker w holds a finished POST /create-user whose body was valid
CreateDone(w) ==
    /\ req[w].kind = "create"
    /\ req[w].pc = "done"
    /\ APIUser(req[w].raw).ok

\* this step is a direct repository call (no worker is involved)
DirectCallStep == requestsStarted' = requestsStarted + 1 /\ req' = req

\* this step starts a request of the given kind on worker w
StartStep(w, kind) == req[w].pc = "idle" /\ req'[w].kind = kind

InFlight(w) == req[w].pc \in {"added", "committed"}

\* the worker's user has been inserted and the call has not failed
Inserted(w) ==
    /\ req[w].kind = "create"
    /\ req[w].pc = "committed" \/ (req[w].pc = "done" /\ req[w].err = "none")

\* C1: every createUser with a valid inbound user returns an outbound record
\* with the input's name and email and a positive id that no other returned
\* record carries.
C1_CreateUserReturnsFreshRecord ==
    \A w \in Workers :
        CreateDone(w) =>
            /\ req[w].err = "none"
            /\ req[w].ret.name = req[w].api_user.name
            /\ req[w].ret.email = req[w].api_user.email
            /\ req[w].ret.id > 0
            /\ \A v \in Workers \ {w} :
                   CreateDone(v) => req[v].ret.id /= req[w].ret.id

\* C2: a listUsers that runs while no other request is in flight returns
\* exactly the records inserted so far, one per createUser, with pairwise
\* distinct ids.
C2_ListReturnsAllCreated ==
    [][\A w \in Workers :
          (/\ StartStep(w, "list")
           /\ \A v \in Workers \ {w} : ~InFlight(v))
          => /\ req'[w].err = "none"
             /\ req'[w].body.tag = "list"
             /\ Len(req'[w].body.users) = Len(storage)
             /\ \A i, j \in DOMAIN req'[w].body.users :
                    i /= j => req'[w].body.users[i].id /= req'[w].body.users[j].id
      ]_vars

\* C3: once main.py has bound the engine with BaseRepository.set_engine, no
\* UserRepository.create (in a request or called directly) fails with the
\* initialization error.
C3_CreateAfterStartupBindGetsSession ==
    [][baseEngine /= NoEngine =>
          /\ \A w \in Workers :
                 StartStep(w, "create") /\ APIUser(req'[w].raw).ok
                     => req'[w].err /= "RuntimeError"
          /\ (DirectCallStep /\ lastCall'.op = "create")
                 => lastCall'.err /= "RuntimeError"
      ]_vars

\* C4: a repository operation called while no engine has been bound fails
\* with RuntimeError and leaves storage unchanged.
C4_UnboundCallFailsWithInitError ==
    [][(/\ baseEngine = NoEngine
        /\ userRepoEngine = NoEngine
        /\ DirectCallStep)
          => lastCall'.err = "RuntimeError" /\ storage' = storage
      ]_vars

\* C5: a finished POST /create-user with a valid body has a success status
\* and carries the outbound representation of the row it persisted.
C5_PostRespondsWithPersistedUser ==
    \A w \in Workers :
        CreateDone(w) =>
            /\ req[w].status \in {200, 201}
            /\ req[w].body.tag = "user"
            /\ \E i \in DOMAIN storage :
                   req[w].body.user = [id |-> storage[i].id,
                                       name |-> storage[i].name,
                                       email |-> storage[i].email]

\* C6: a POST /create-user whose body fails validation ends with status 422,
\* never reaches the service (nothing mapped, no session opened), and the
\* step that handles it leaves storage unchanged.
C6_MalformedBodyRejectedAtBoundary ==
    /\ [](\A w \in Workers :
             (req[w].kind = "create" /\ ~APIUser(req[w].raw).ok)
                 => /\ req[w].pc = "done"
                    /\ req[w].status = 422
                    /\ req[w].api_user = NullIn
                    /\ req[w].db_user = NullUser
                    /\ req[w].session = 0)
    /\ [][\A w \in Workers :
             (StartStep(w, "create") /\ ~APIUser(req'[w].raw).ok)
                 => storage' = storage /\ sessionsOpened' = sessionsOpened
         ]_vars

C6_Witness ==
    \E w \in Workers :
        /\ req[w].kind = "create"
        /\ req[w].raw = [name |-> "Bob", email |-> "not-an-email"]
        /\ req[w].status = 422
        /\ storage /= <<>>

\* C7: a finished GET /users on empty storage has no error and carries the
\* empty list.
C7_ListOnEmptyStorageIsEmpty ==
    \A w \in Workers :
        (req[w].kind = "list" /\ req[w].pc = "done" /\ storage = <<>>)
            => /\ req[w].err = "none"
               /\ req[w].body = [tag |-> "list", users |-> <<>>]

\* C8 as stated: api_user_to_user copies name and email and leaves the id
\* unset, and user_to_api_user_response applied to a stored user (identified
\* or not) never fails and copies id, name and email.
C8_RoundTripAsStated ==
    /\ mapStage \in {"stored", "saved", "out", "ValidationError"}
           => /\ mapDb.name = mapIn.name
              /\ mapDb.email = mapIn.email
    /\ mapStage = "stored" => mapDb.id = NoId
    /\ mapStage /= "ValidationError"
    /\ mapStage = "out"
           => mapOut = [id |-> mapDb.id, name |-> mapDb.name, email |-> mapDb.email]

\* C8 amended: api_user_to_user copies name and email and leaves the id
\* unset; user_to_api_user_response of a stored user whose id storage has
\* assigned copies id, name and email, so inbound -> stored -> identified ->
\* outbound preserves name and email; of a stored user without an id it
\* fails validation.
C8_RoundTripOnceIdentified ==
    /\ mapStage \in {"stored", "saved", "out", "ValidationError"}
           => /\ mapDb.name = mapIn.name
              /\ mapDb.email = mapIn.email
    /\ mapStage = "stored" => mapDb.id = NoId
    /\ mapStage = "ValidationError" => mapDb.id = NoId
    /\ mapStage = "out"
           => /\ mapOut = [id |-> mapDb.id, name |-> mapDb.name, email |-> mapDb.email]
              /\ mapOut.id > 0
              /\ mapOut.name = mapIn.name
              /\ mapOut.email = mapIn.email

C8_Witness ==
    /\ mapStage = "out"
    /\ mapIn = [name |-> "Bob", email |-> "Bob@example.org"]
    /\ mapOut.id = 2

\* C9: storage only grows at its end: every row stays where it is with the
\* same id, name and email, and a step that starts listUsers (or GET /hi, or
\* sends a response) changes no row.
C9_RowsNeverUpdatedOrDeleted ==
    [][/\ IsPrefix(storage, storage')
       /\ (\E w \in Workers : StartStep(w, "list") \/ StartStep(w, "hi"))
              => storage' = storage
       /\ (DirectCallStep /\ lastCall'.op = "get_all_users")
              => storage' = storage
      ]_vars

C9_Witness ==
    /\ Len(storage) >= 2
    /\ \E w \in Workers : req[w].kind = "list" /\ req[w].pc = "done"

\* C10: in every interleaving, requests in flight hold different sessions,
\* no request step changes either engine attribute, every commit appends
\* exactly one row, every inserted user is exactly one row of storage, and no
\* two rows share an id.
C10_ConcurrentCreatesInsertDistinctRows ==
    /\ [](/\ \A v, w \in Workers :
                 (v /= w /\ InFlight(v) /\ InFlight(w))
                     => req[v].session /= req[w].session
          /\ \A w \in Workers : InFlight(w) => req[w].session >= 1
          /\ Cardinality(RowIds(storage)) = Len(storage)
          /\ \A w \in Workers :
                 Inserted(w) =>
                     /\ Cardinality({i \in DOMAIN storage :
                                        storage[i].id = req[w].db_user.id}) = 1
                     /\ \E i \in DOMAIN storage :
                            /\ storage[i].id = req[w].db_user.id
                            /\ storage[i].name = req[w].api_user.name
                            /\ storage[i].email = req[w].api_user.email
          /\ \A v, w \in Workers :
                 (v /= w /\ Inserted(v) /\ Inserted(w))
                     => req[v].db_user.id /= req[w].db_user.id)
    /\ [][/\ req' /= req
              => baseEngine' = baseEngine /\ userRepoEngine' = userRepoEngine
          /\ \A w \in Workers :
                 (req[w].pc = "added" /\ req'[w].pc = "committed")
                     => Len(storage') = Len(storage) + 1
         ]_vars

C10_Witness ==
    /\ NumWorkers >= 2
    /\ req[1].pc = "committed"
    /\ req[2].pc = "committed"
    /\ req[1].session /= req[2].session

====
